---- MODULE Spec2Model ----
(***************************************************************************)
(* Lumina: the document persistence layer (services/storageService.ts),    *)
(* the App handlers that drive it (App.tsx) and the Workspace batch        *)
(* generation (components/Workspace.tsx).                                  *)
(*                                                                         *)
(* Conventions.  A JavaScript string is a sequence of tokens, a token      *)
(* being a piece of text that holds no comma, or the comma itself; the     *)
(* empty string is << >>.  A JavaScript object is a function from its keys *)
(* to their values: a key that is undefined is not in the DOMAIN.  A null  *)
(* text column of the table is << >>.  Every await of the source is a step *)
(* boundary: what runs between two awaits is one action.                   *)
(***************************************************************************)
EXTENDS Integers, Sequences, FiniteSets, TLC

\* ------------------------------------------------------------------------
\* Bounds of the model
\* ------------------------------------------------------------------------

\* service calls started in one behaviour
MaxStarted == 3

\* the slots of the service calls in flight: two clients (two tabs, or two
\* handlers of one tab) at a time, which is what every race of the layer
\* takes
CallIds == {1, 2}

\* ------------------------------------------------------------------------
\* Users, document ids, files
\* ------------------------------------------------------------------------

Users == {"u1", "u2"}

\* supabase.auth.getUser() of a client with no session
NoUser == "anon"

\* ids come from generateId (App.tsx): unique, so an id belongs to the one
\* user whose client generated it, and none is the all-zero UUID
DocIds == {"d1", "d2", "d3"}

IdOwner(id) == IF id = "d3" THEN "u2" ELSE "u1"

NilId == "00000000-0000-0000-0000-000000000000"

PdfMime == << "application/pdf" >>

\* the bytes of the file the user picked for each document
FileBytes(id) ==
  IF id = "d1" THEN << 37, 80 >>
  ELSE IF id = "d2" THEN << 255 >>
  ELSE << 1, 2, 250 >>

\* ------------------------------------------------------------------------
\* JavaScript objects
\* ------------------------------------------------------------------------

\* { ...base, ...over }
Spread(base, over) == over @@ base

\* const { k, ...rest } = obj
Omit(obj, k) == [x \in DOMAIN obj \ {k} |-> obj[x]]

\* a string value is truthy when it is defined and not empty
Truthy(obj, k) == k \in DOMAIN obj /\ obj[k] # << >>

\* ------------------------------------------------------------------------
\* Blob codec
\* ------------------------------------------------------------------------

B64Alphabet ==
  << "A","B","C","D","E","F","G","H","I","J","K","L","M","N","O","P",
     "Q","R","S","T","U","V","W","X","Y","Z","a","b","c","d","e","f",
     "g","h","i","j","k","l","m","n","o","p","q","r","s","t","u","v",
     "w","x","y","z","0","1","2","3","4","5","6","7","8","9","+","/" >>

B64Char(n) == B64Alphabet[n + 1]

B64Index(c) == (CHOOSE i \in 1..64 : B64Alphabet[i] = c) - 1

IsB64Char(c) == \E i \in 1..64 : B64Alphabet[i] = c

\* btoa: three bytes to four characters, padded with "="
RECURSIVE btoa(_)
btoa(b) ==
  IF Len(b) = 0 THEN << >>
  ELSE IF Len(b) = 1 THEN
    LET n == b[1] * 16
    IN  << B64Char(n \div 64), B64Char(n % 64), "=", "=" >>
  ELSE IF Len(b) = 2 THEN
    LET n == (b[1] * 256 + b[2]) * 4
    IN  << B64Char(n \div 4096), B64Char((n \div 64) % 64), B64Char(n % 64), "=" >>
  ELSE
    LET n == b[1] * 65536 + b[2] * 256 + b[3]
    IN  << B64Char(n \div 262144), B64Char((n \div 4096) % 64),
           B64Char((n \div 64) % 64), B64Char(n % 64) >>
        \o btoa(SubSeq(b, 4, Len(b)))

\* atob removes up to two "=" from the end of a text whose length is a
\* multiple of four
StripPadding(s) ==
  IF Len(s) % 4 # 0 \/ Len(s) = 0 THEN s
  ELSE IF s[Len(s)] # "=" THEN s
  ELSE IF s[Len(s) - 1] = "=" THEN SubSeq(s, 1, Len(s) - 2)
  ELSE SubSeq(s, 1, Len(s) - 1)

RECURSIVE DecodeGroups(_)
DecodeGroups(s) ==
  IF Len(s) = 0 THEN << >>
  ELSE IF Len(s) = 2 THEN
    LET n == B64Index(s[1]) * 64 + B64Index(s[2])
    IN  << n \div 16 >>
  ELSE IF Len(s) = 3 THEN
    LET n == B64Index(s[1]) * 4096 + B64Index(s[2]) * 64 + B64Index(s[3])
    IN  << n \div 1024, (n \div 4) % 256 >>
  ELSE
    LET n == B64Index(s[1]) * 262144 + B64Index(s[2]) * 4096
             + B64Index(s[3]) * 64 + B64Index(s[4])
    IN  << n \div 65536, (n \div 256) % 256, n % 256 >>
        \o DecodeGroups(SubSeq(s, 5, Len(s)))

\* atob: ok = FALSE is the InvalidCharacterError it throws
atob(s) ==
  LET t == StripPadding(s)
  IN  IF Len(t) % 4 = 1 \/ \E i \in 1..Len(t) : ~IsB64Char(t[i])
      THEN [ok |-> FALSE, bytes |-> << >>]
      ELSE [ok |-> TRUE, bytes |-> DecodeGroups(t)]

\* String(undefined), what atob makes of an argument that is undefined
UndefinedText == << "u","n","d","e","f","i","n","e","d" >>

\* the position of the first comma of s from position i on, 0 when none
RECURSIVE IndexOfComma(_, _)
IndexOfComma(s, i) ==
  IF i > Len(s) THEN 0
  ELSE IF s[i] = "," THEN i
  ELSE IndexOfComma(s, i + 1)

\* s.split(','): the sequence of the pieces between the commas
RECURSIVE SplitComma(_)
SplitComma(s) ==
  LET i == IndexOfComma(s, 1)
  IN  IF i = 0 THEN << s >>
      ELSE << SubSeq(s, 1, i - 1) >> \o SplitComma(SubSeq(s, i + 1, Len(s)))

\* base64ToBlob(base64, mimeType): atob(base64.split(',')[1]) as a Blob
base64ToBlob(base64, mimeType) ==
  LET parts == SplitComma(base64)
      dec   == atob(IF Len(parts) >= 2 THEN parts[2] ELSE UndefinedText)
  IN  [ok |-> dec.ok, blob |-> [bytes |-> dec.bytes, type |-> mimeType]]

\* blobToBase64(blob): FileReader.readAsDataURL
blobToBase64(blob) ==
  << "data:" >> \o blob.type \o << ";base64", "," >> \o btoa(blob.bytes)

\* ------------------------------------------------------------------------
\* State
\* ------------------------------------------------------------------------

VARIABLES
  table,      \* the documents table: its rows, oldest first (created_at)
  objects,    \* the document-files bucket: path -> Blob, for the paths it holds
  calls,      \* the storage-service calls in flight, by call slot
  started,    \* how many service calls were started so far
  gone,       \* history: the ids whose row recorded a file_path when a
              \* deleteDocument read it, that call returned without error, and
              \* no saveDocument for the id ran during it or since
  documents,  \* App: the local list of documents
  activeDoc,  \* App: << the document open in the Workspace >>, << >> is null
  ws,         \* Workspace: the tab and the deep-dive state of the component
  batches,    \* Workspace: the loadDeepDive runs started, oldest first
  view,         \* App: the view shown
  isOpeningDoc, \* App: the download overlay of the library is shown
  loadDocsDue,  \* App: the view changed and the loadDocs effect has not run yet
  failedOpens,  \* history: the ids of the documents an openDocument failed for
  aiCalls,      \* Workspace: the chat and rewrite calls started, oldest first
  user,         \* App: the user signed in at the client, NoUser is null
  stats,        \* App: the analytics shown on the dashboard
  downloaded    \* history: the ids whose file an openDocument has downloaded
                \* and put into the documents list

shellVars == << view, isOpeningDoc, loadDocsDue, failedOpens >>

sessionVars == << user, stats, downloaded >>

appVars == << documents, activeDoc, ws, batches, shellVars, aiCalls, sessionVars >>

\* ------------------------------------------------------------------------
\* Documents as the program builds them
\* ------------------------------------------------------------------------

\* handleFileUpload: the Document built from the picked file
NewDoc(id) ==
  [ id          |-> id,
    name        |-> << id, ".pdf" >>,
    size        |-> Len(FileBytes(id)),
    type        |-> PdfMime,
    uploadDate  |-> << "today" >>,
    base64Data  |-> blobToBase64([bytes |-> FileBytes(id), type |-> PdfMime]),
    chatHistory |-> << >> ]

\* App.tsx lines 34-40: the analytics of a client that has just started
InitialStats ==
  [ totalDocs                |-> 0,
    totalFlashcardsGenerated |-> 0,
    quizzesTaken             |-> 0,
    averageScore             |-> 0,
    recentActivity           |-> << >> ]

\* the cached deep-dive artifacts a Workspace handler adds to a document
WithDeepDive(doc, mm, sa, kc) ==
  Spread(doc, [mindMap |-> mm, strategicAnalysis |-> sa, keyCitations |-> kc])

\* ------------------------------------------------------------------------
\* The two stores
\* ------------------------------------------------------------------------

\* row level security of the documents table: a client sees and changes
\* only the rows it owns
RowVisible(caller, row) == row.user_id = caller

RowIndex(id) ==
  IF \E i \in 1..Len(table) : table[i].id = id
  THEN CHOOSE i \in 1..Len(table) : table[i].id = id
  ELSE 0

HasRow(id) == RowIndex(id) # 0

RowOf(id) == table[RowIndex(id)]

\* .select(...).eq('id', id).single(): the row, or null
SelectSingle(caller, id) ==
  IF HasRow(id) /\ RowVisible(caller, RowOf(id)) THEN << RowOf(id) >> ELSE << >>

\* the row an insert makes of a request body
InsertedRow(payload) == Spread([file_path |-> << >>], payload)

\* .upsert(payload): the request body is JSON, which leaves out a key whose
\* value is undefined; a new row gets NULL in a column the body does not
\* name, a row that exists keeps what it has in such a column
Upsert(payload) ==
  LET i == RowIndex(payload.id)
  IN  IF i = 0
      THEN Append(table, InsertedRow(payload))
      ELSE [table EXCEPT ![i] = Spread(table[i], payload)]

\* .delete().eq('id', id)
DeleteRowById(caller, id) ==
  LET Keep(r) == ~(RowVisible(caller, r) /\ r.id = id)
  IN  SelectSeq(table, Keep)

\* storage.upload(path, blob, { upsert: true })
PutObject(path, blob) == (path :> blob) @@ objects

\* storage.remove([path]): a path that holds nothing is no error
RemoveObject(path) == [p \in DOMAIN objects \ {path} |-> objects[p]]

\* .order('created_at', { ascending: false })
NewestFirst(s) == [i \in 1..Len(s) |-> s[Len(s) + 1 - i]]

\* ------------------------------------------------------------------------
\* Service calls
\* ------------------------------------------------------------------------

IdleCall ==
  [ op       |-> "idle",
    pc       |-> "idle",
    handler  |-> "none",    \* the App handler that awaits the call, if one does
    caller   |-> NoUser,
    doc      |-> << >>,     \* saveDocument: << doc >>
    id       |-> "",
    path     |-> << >>,
    existing |-> << >>,     \* the row read, << >> is null
    filePath |-> << >>,     \* let filePath, << >> is undefined
    decoded  |-> << >>,     \* << what base64ToBlob made of the payload >>
    log      |-> << >>,     \* the store requests issued, in order
    storeErr |-> FALSE,     \* a store request of this call returned an error
    atCall   |-> FALSE,     \* the row recorded a file_path when the call began
    sawPath  |-> FALSE,     \* the row recorded a file_path when it was read
    overlap  |-> FALSE,     \* a saveDocument for the same id ran during this call
    removed  |-> 0,         \* the rows the delete request removed
    result   |-> "none",    \* "ok": returned, "error": threw
    ret      |-> << >> ]    \* << value returned >>

Begin(c, op, caller, pc) ==
  [IdleCall EXCEPT !.op = op, !.caller = caller, !.pc = pc]

Threw(call) == [call EXCEPT !.pc = "done", !.result = "error"]

Returned(call, value) ==
  [call EXCEPT !.pc = "done", !.result = "ok", !.ret = value]

Issued(call, request, fail) ==
  [call EXCEPT !.log = Append(@, request), !.storeErr = @ \/ fail]

\* a call that has finished hands its outcome to its caller before anything
\* else runs
Quiet == \A c \in CallIds : calls[c].pc # "done"

\* a new call takes the first free slot
CanStart(c) ==
  /\ Quiet
  /\ calls[c].op = "idle"
  /\ \A b \in CallIds : b < c => calls[b].op # "idle"
  /\ started < MaxStarted

At(c, op, pc) == Quiet /\ calls[c].op = op /\ calls[c].pc = pc

\* ---- saveDocument ----

\* faulty variant of NeedsUpload: the bucket is looked at, not the row, and
\* nothing is uploaded once the bucket holds a file
NeedsUploadUnlessStored(doc, existing, filePath) ==
  Truthy(doc, "base64Data") /\ DOMAIN objects = { }

\* faulty variant of NeedsUpload: (existing && !filePath) for (!existing || !filePath)
NeedsUploadRowOnly(doc, existing, filePath) ==
  Truthy(doc, "base64Data") /\ (existing # << >> /\ filePath = << >>)

\* line 40: upload only a new payload whose path is not recorded
NeedsUpload(doc, existing, filePath) ==
  Truthy(doc, "base64Data") /\ (existing = << >> \/ filePath = << >>)

\* faulty variant of FileName: `${user.id}.pdf`, one path for all documents of a user
FileNamePerUser(uid, doc) == << uid, ".pdf" >>

\* line 41: `${user.id}/${doc.id}.pdf`
FileName(uid, doc) == << uid, "/", doc.id, ".pdf" >>

\* faulty variant of MetaData: app_data: doc
MetaDataWithPayload(doc) == doc

\* line 54: const { base64Data, ...metaData } = doc
MetaData(doc) == Omit(doc, "base64Data")

\* faulty variant of Payload: file_path: filePath ?? null, a key that is always sent
PayloadExplicitNull(doc, uid, filePath) ==
  [ id          |-> doc.id,
    user_id     |-> uid,
    name        |-> doc.name,
    size        |-> doc.size,
    type        |-> doc.type,
    upload_date |-> doc.uploadDate,
    file_path   |-> filePath,
    app_data    |-> MetaData(doc) ]

\* lines 56-65: a filePath that is undefined leaves the key out of the body
Payload(doc, uid, filePath) ==
  LET cols == [ id          |-> doc.id,
                user_id     |-> uid,
                name        |-> doc.name,
                size        |-> doc.size,
                type        |-> doc.type,
                upload_date |-> doc.uploadDate,
                app_data    |-> MetaData(doc) ]
  IN  IF filePath = << >> THEN cols ELSE Spread(cols, [file_path |-> filePath])

\* lines 25-27: getUser, and the throw when nobody is signed in
SaveDocumentFrom(c, caller, doc, handler) ==
  /\ CanStart(c)
  /\ started' = started + 1
  /\ LET call == [Begin(c, "saveDocument", caller, "select")
                    EXCEPT !.handler = handler,
                           !.doc = << doc >>,
                           !.id = doc.id,
                           !.atCall = HasRow(doc.id) /\ RowOf(doc.id).file_path # << >>]
         Mark(b) == IF calls[b].op = "deleteDocument" /\ calls[b].id = doc.id
                    THEN [calls[b] EXCEPT !.overlap = TRUE]
                    ELSE calls[b]
     IN  calls' = [b \in CallIds |->
                     IF b # c THEN Mark(b)
                     ELSE IF caller = NoUser THEN Threw(call) ELSE call]
  /\ gone' = gone \ {doc.id}
  /\ UNCHANGED << table, objects >>

\* a call whose caller does nothing with the outcome
SaveDocumentBegin(c, caller, doc) == SaveDocumentFrom(c, caller, doc, "none")

SaveDocumentCall(c, caller, doc) ==
  /\ SaveDocumentBegin(c, caller, doc)
  /\ UNCHANGED appVars

\* faulty variant of AfterDecode: the error of the decoder is caught and
\* the empty blob goes on to the upload
AfterDecodeCaught(read, dec) == [read EXCEPT !.pc = "upload", !.decoded = << dec >>]

\* line 42: const blob = base64ToBlob(...), whose InvalidCharacterError
\* leaves saveDocument before the upload
AfterDecode(read, dec) ==
  IF dec.ok
  THEN [read EXCEPT !.pc = "upload", !.decoded = << dec >>]
  ELSE Threw([read EXCEPT !.decoded = << dec >>])

\* lines 30-42: the row read (its error is not looked at), the decision to
\* upload and the decoding of the payload
SaveSelect(c, fail) ==
  /\ At(c, "saveDocument", "select")
  /\ LET call     == calls[c]
         doc      == call.doc[1]
         found    == SelectSingle(call.caller, call.id)
         existing == IF fail THEN << >> ELSE found
         filePath == IF existing = << >> THEN << >> ELSE existing[1].file_path
         read     == [Issued(call, "select", fail)
                        EXCEPT !.existing = existing,
                               !.filePath = filePath,
                               !.sawPath = found # << >> /\ found[1].file_path # << >>]
     IN  calls' = [calls EXCEPT ![c] =
           IF NeedsUpload(doc, existing, filePath)
           THEN AfterDecode(read, base64ToBlob(doc.base64Data, doc.type))
           ELSE [read EXCEPT !.pc = "upsert"]]
  /\ UNCHANGED << table, objects, started, gone, appVars >>

\* lines 44-49: the upload, and the throw on its error
SaveUpload(c, fail) ==
  /\ At(c, "saveDocument", "upload")
  /\ LET call     == calls[c]
         doc      == call.doc[1]
         fileName == FileName(call.caller, doc)
         blob     == call.decoded[1].blob
         sent     == Issued(call, "upload", fail)
     IN  IF fail
         THEN /\ calls' = [calls EXCEPT ![c] = Threw(sent)]
              /\ UNCHANGED objects
         ELSE /\ calls' = [calls EXCEPT ![c] =
                             [sent EXCEPT !.filePath = fileName, !.pc = "upsert"]]
              /\ objects' = PutObject(fileName, blob)
  /\ UNCHANGED << table, started, gone, appVars >>

\* lines 54-71: the upsert, and the throw on its error
SaveUpsert(c, fail) ==
  /\ At(c, "saveDocument", "upsert")
  /\ LET call == calls[c]
         sent == Issued(call, "upsert", fail)
     IN  IF fail
         THEN /\ calls' = [calls EXCEPT ![c] = Threw(sent)]
              /\ UNCHANGED table
         ELSE /\ calls' = [calls EXCEPT ![c] = Returned(sent, << >>)]
              /\ table' = Upsert(Payload(call.doc[1], call.caller, call.filePath))
  /\ UNCHANGED << objects, started, gone, appVars >>

\* ---- getAllDocuments ----

\* faulty variant of RowToDocument: { id: row.id, file_path: row.file_path,
\* ...row.app_data }, the keys of app_data last
RowToDocumentAppDataLast(row) ==
  Spread([id |-> row.id, file_path |-> row.file_path], row.app_data)

\* lines 92-97: { ...row.app_data, id: row.id, file_path: row.file_path }
RowToDocument(row) ==
  Spread(row.app_data, [id |-> row.id, file_path |-> row.file_path])

\* lines 83-86: select('*').order('created_at', { ascending: false })
SelectAll(caller) ==
  LET Mine(r) == RowVisible(caller, r)
  IN  NewestFirst(SelectSeq(table, Mine))

\* lines 79-80: getUser, and the empty list when nobody is signed in
GetAllDocumentsCall(c, caller) ==
  /\ CanStart(c)
  /\ started' = started + 1
  /\ LET call == Begin(c, "getAllDocuments", caller, "select")
     IN  calls' = [calls EXCEPT ![c] =
                     IF caller = NoUser THEN Returned(call, << << >> >>) ELSE call]
  /\ UNCHANGED << table, objects, gone, appVars >>

\* lines 83-97
GetAllSelect(c, fail) ==
  /\ At(c, "getAllDocuments", "select")
  /\ LET call == calls[c]
         sent == Issued(call, "select", fail)
         rows == SelectAll(call.caller)
         docs == [i \in 1..Len(rows) |-> RowToDocument(rows[i])]
     IN  calls' = [calls EXCEPT ![c] =
                     IF fail THEN Threw(sent) ELSE Returned(sent, << docs >>)]
  /\ UNCHANGED << table, objects, started, gone, appVars >>

\* ---- loadDocumentFile ----

\* openDocument passes the file_path of a listed document: id is the
\* document it was listed for
LoadDocumentFileCall(c, caller, id, path) ==
  /\ CanStart(c)
  /\ started' = started + 1
  /\ calls' = [calls EXCEPT ![c] =
                 [Begin(c, "loadDocumentFile", caller, "download")
                    EXCEPT !.id = id, !.path = path]]
  /\ UNCHANGED << table, objects, gone, appVars >>

\* lines 104-111: the download fails on a transport error and on a path
\* that holds no object
LoadDownload(c, fail) ==
  /\ At(c, "loadDocumentFile", "download")
  /\ LET call    == calls[c]
         missing == call.path \notin DOMAIN objects
         sent    == Issued(call, "download", fail \/ missing)
     IN  calls' = [calls EXCEPT ![c] =
                     IF fail \/ missing
                     THEN Threw(sent)
                     ELSE Returned(sent, << blobToBase64(objects[call.path]) >>)]
  /\ UNCHANGED << table, objects, started, gone, appVars >>

\* ---- deleteDocument ----

DeleteDocumentCall(c, caller, id) ==
  /\ CanStart(c)
  /\ started' = started + 1
  /\ calls' = [calls EXCEPT ![c] =
                 [Begin(c, "deleteDocument", caller, "select")
                    EXCEPT !.id = id,
                           !.overlap = \E b \in CallIds :
                                          /\ calls[b].op = "saveDocument"
                                          /\ calls[b].id = id]]
  /\ UNCHANGED << table, objects, gone, appVars >>

\* lines 115-121: the row read, its error not looked at
DeleteSelect(c, fail) ==
  /\ At(c, "deleteDocument", "select")
  /\ LET call  == calls[c]
         found == SelectSingle(call.caller, call.id)
         row   == IF fail THEN << >> ELSE found
         path  == IF row = << >> THEN << >> ELSE row[1].file_path
         read  == [Issued(call, "select", fail)
                     EXCEPT !.existing = row,
                            !.filePath = path,
                            !.sawPath = found # << >> /\ found[1].file_path # << >>]
     IN  calls' = [calls EXCEPT ![c] =
                     [read EXCEPT !.pc = IF path # << >> THEN "remove" ELSE "delete"]]
  /\ UNCHANGED << table, objects, started, gone, appVars >>

\* line 122: the removal of the object, its error not looked at
DeleteRemove(c, fail) ==
  /\ At(c, "deleteDocument", "remove")
  /\ LET call == calls[c]
     IN  /\ calls' = [calls EXCEPT ![c] =
                        [Issued(call, "remove", fail) EXCEPT !.pc = "delete"]]
         /\ objects' = IF fail THEN objects ELSE RemoveObject(call.filePath)
  /\ UNCHANGED << table, started, gone, appVars >>

\* lines 125-126: the deletion of the row, and the throw on its error
DeleteRow(c, fail) ==
  /\ At(c, "deleteDocument", "delete")
  /\ LET call == calls[c]
         sent == Issued(call, "delete", fail)
     IN  IF fail
         THEN /\ calls' = [calls EXCEPT ![c] = Threw(sent)]
              /\ UNCHANGED table
         ELSE /\ table' = DeleteRowById(call.caller, call.id)
              /\ calls' = [calls EXCEPT ![c] =
                             [Returned(sent, << >>)
                                EXCEPT !.removed = Len(table) - Len(table')]]
  /\ gone' = IF ~fail /\ calls[c].sawPath /\ ~calls[c].overlap
             THEN gone \cup {calls[c].id}
             ELSE gone
  /\ UNCHANGED << objects, started, appVars >>

\* ---- clearAllData ----

\* faulty variant of ClearFilter: .eq for .neq
ClearFilterEq(row) == row.id = NilId

\* line 134: .delete().neq('id', '00000000-0000-0000-0000-000000000000')
ClearFilter(row) == row.id # NilId

DeleteAllRows(caller) ==
  LET Keep(r) == ~(RowVisible(caller, r) /\ ClearFilter(r))
  IN  SelectSeq(table, Keep)

ClearAllDataCall(c, caller) ==
  /\ CanStart(c)
  /\ started' = started + 1
  /\ calls' = [calls EXCEPT ![c] = Begin(c, "clearAllData", caller, "delete")]
  /\ UNCHANGED << table, objects, gone, appVars >>

\* lines 134-135
ClearDelete(c, fail) ==
  /\ At(c, "clearAllData", "delete")
  /\ LET call == calls[c]
         sent == Issued(call, "delete", fail)
     IN  IF fail
         THEN /\ calls' = [calls EXCEPT ![c] = Threw(sent)]
              /\ UNCHANGED table
         ELSE /\ table' = DeleteAllRows(call.caller)
              /\ calls' = [calls EXCEPT ![c] =
                             [Returned(sent, << >>)
                                EXCEPT !.removed = Len(table) - Len(table')]]
  /\ UNCHANGED << objects, started, gone, appVars >>

\* the caller takes the outcome of a finished call
Settle(c) ==
  /\ calls[c].pc = "done"
  /\ calls[c].handler = "none"
  /\ calls' = [calls EXCEPT ![c] = IdleCall]
  /\ UNCHANGED << table, objects, started, gone, appVars >>

\* ------------------------------------------------------------------------
\* Workspace: the deep-dive batch, and App.handleUpdateDocument
\* ------------------------------------------------------------------------

\* loadDeepDive runs started in one behaviour
MaxBatches == 2

DeepDiveKeys == {"mindMap", "strategicAnalysis", "keyCitations"}

\* the largest id of a message of the list, 0 when it is empty
MaxMessageId(msgs) ==
  IF msgs = << >> THEN 0
  ELSE CHOOSE n \in { msgs[i].id : i \in 1..Len(msgs) } :
         \A i \in 1..Len(msgs) : msgs[i].id <= n

\* doc.chatHistory || []
ChatHistoryOf(doc) == IF "chatHistory" \in DOMAIN doc THEN doc.chatHistory ELSE << >>

\* Workspace.tsx lines 23-28, 54-57: the state of the component when it
\* mounts with the document doc (x || null, x || []); now is Date.now(),
\* later than the id of every message of the history
WorkspaceMount(doc) ==
  [ activeTab         |-> "chat",
    messages          |-> ChatHistoryOf(doc),
    isChatLoading     |-> FALSE,
    rewritingMessageId |-> 0,
    now               |-> MaxMessageId(ChatHistoryOf(doc)) + 1,
    mindMap           |-> IF Truthy(doc, "mindMap") THEN doc.mindMap ELSE << >>,
    strategicAnalysis |-> IF Truthy(doc, "strategicAnalysis")
                          THEN doc.strategicAnalysis ELSE << >>,
    keyCitations      |-> IF Truthy(doc, "keyCitations") THEN doc.keyCitations ELSE << >>,
    isDeepDiveLoading |-> FALSE,
    quizQuestions     |-> << >>,
    isQuizLoading     |-> FALSE,
    currentQuestionIndex |-> 0,
    selectedAnswer    |-> << >>,     \* null
    quizScore         |-> 0,
    quizFinished      |-> FALSE,
    showQuizSetup     |-> TRUE ]

\* what the generation call for key k of batch b resolves with
Generated(k, b) == << k, ToString(b) >>

\* faulty variant of BatchOutcome: Promise.allSettled for Promise.all
BatchOutcomeAllSettled(gen) ==
  IF \E k \in DeepDiveKeys : gen[k] = "pending" THEN "pending" ELSE "fulfilled"

\* lines 401-405: Promise.all rejects as soon as one promise rejects and is
\* fulfilled when all are
BatchOutcome(gen) ==
  IF \E k \in DeepDiveKeys : gen[k] = "failed" THEN "rejected"
  ELSE IF \E k \in DeepDiveKeys : gen[k] = "pending" THEN "pending"
  ELSE "fulfilled"

\* lines 402-404: the value each promise of the batch is fulfilled with
BatchValue(b, k) ==
  IF batches[b].gen[k] = "cached" THEN batches[b].doc[k] ELSE Generated(k, b)

\* line 396: nothing to do when the three artifacts are cached
DeepDiveCached(doc) == \A k \in DeepDiveKeys : Truthy(doc, k)

\* lines 395-405: loadDeepDive up to its await, for the document the
\* component was rendered with
LoadDeepDiveBegin ==
  LET doc == activeDoc[1]
  IN  IF DeepDiveCached(doc)
      THEN UNCHANGED batches /\ ws' = [ws EXCEPT !.activeTab = "deep_dive"]
      ELSE /\ Len(batches) < MaxBatches
           /\ batches' = Append(batches,
                [ doc     |-> doc,
                  gen     |-> [k \in DeepDiveKeys |->
                                 IF Truthy(doc, k) THEN "cached" ELSE "pending"],
                  state   |-> "pending",
                  failed  |-> FALSE,     \* a generation call of the batch failed
                  updated |-> FALSE ])   \* the batch called onUpdateDocument
           /\ ws' = [ws EXCEPT !.activeTab = "deep_dive", !.isDeepDiveLoading = TRUE]

\* lines 428-431 with the tab buttons: the effect runs when activeTab changes
SetActiveTab(tab) ==
  /\ Quiet
  /\ activeDoc # << >>
  /\ tab # ws.activeTab
  /\ IF tab = "deep_dive"
     THEN LoadDeepDiveBegin
     ELSE UNCHANGED batches /\ ws' = [ws EXCEPT !.activeTab = tab]
  /\ UNCHANGED << table, objects, calls, started, gone, documents, activeDoc, shellVars,
                  aiCalls, sessionVars >>

\* App.tsx lines 264-270: handleUpdateDocument up to the await in saveDocument
HandleUpdateDocument(c, updatedDoc) ==
  /\ documents' = [i \in 1..Len(documents) |->
                     IF documents[i].id = updatedDoc.id THEN updatedDoc ELSE documents[i]]
  /\ activeDoc' = << updatedDoc >>
  /\ SaveDocumentBegin(c, IdOwner(updatedDoc.id), updatedDoc)

\* a generation call of batch b settles.  Lines 401-411: when that settles
\* the Promise.all, either the three results go to the component and to
\* onUpdateDocument, or the catch logs the error; both end the loading.  A
\* call that settles after the Promise.all was rejected changes nothing.
GenerationSettles(b, k, ok) ==
  /\ Quiet
  /\ b \in 1..Len(batches)
  /\ batches[b].gen[k] = "pending"
  /\ UNCHANGED << shellVars, aiCalls, sessionVars >>
  /\ LET gen     == [batches[b].gen EXCEPT ![k] = IF ok THEN "done" ELSE "failed"]
         outcome == IF batches[b].state = "pending" THEN BatchOutcome(gen) ELSE "settled"
         settled == [batches[b] EXCEPT !.gen = gen, !.failed = @ \/ ~ok]
         mm      == BatchValue(b, "mindMap")
         sa      == BatchValue(b, "strategicAnalysis")
         kc      == BatchValue(b, "keyCitations")
     IN  IF outcome = "fulfilled"
         THEN /\ ws' = [ws EXCEPT !.mindMap = mm,
                                  !.strategicAnalysis = sa,
                                  !.keyCitations = kc,
                                  !.isDeepDiveLoading = FALSE]
              /\ batches' = [batches EXCEPT ![b] =
                               [settled EXCEPT !.state = "fulfilled", !.updated = TRUE]]
              /\ \E c \in CallIds :
                   HandleUpdateDocument(c, WithDeepDive(batches[b].doc, mm, sa, kc))
         ELSE /\ batches' = [batches EXCEPT ![b] =
                               [settled EXCEPT !.state =
                                  IF outcome = "rejected" THEN "rejected" ELSE @]]
              /\ ws' = IF outcome = "rejected"
                       THEN [ws EXCEPT !.isDeepDiveLoading = FALSE]
                       ELSE ws
              /\ UNCHANGED << table, objects, calls, started, gone, documents, activeDoc >>

\* ------------------------------------------------------------------------
\* The documents a client passes to saveDocument
\* ------------------------------------------------------------------------

\* openDocument: the listed document with the downloaded file in it
Hydrated(listed, content) == Spread(listed, [base64Data |-> content])

\* a document as a client holds it: just uploaded, listed, or opened from
\* the list; with or without the artifacts of a deep dive
ClientDocs(id) ==
  LET listed == IF HasRow(id) THEN { RowToDocument(RowOf(id)) } ELSE { }
      opened == { Hydrated(d, blobToBase64(objects[d.file_path])) :
                    d \in { l \in listed : l.file_path \in DOMAIN objects } }
      plain  == { NewDoc(id) } \cup listed \cup opened
  IN  plain

\* ------------------------------------------------------------------------
\* The storage service under concurrent clients
\* ------------------------------------------------------------------------

Init ==
  /\ table = << >>
  /\ objects = << >>
  /\ calls = [c \in CallIds |-> IdleCall]
  /\ started = 0
  /\ gone = { }
  /\ documents = << >>
  /\ activeDoc = << >>
  /\ ws = << >>
  /\ batches = << >>
  /\ view = "AUTH"
  /\ isOpeningDoc = FALSE
  /\ loadDocsDue = FALSE
  /\ failedOpens = { }
  /\ aiCalls = << >>
  /\ user = NoUser
  /\ stats = InitialStats
  /\ downloaded = { }

Next ==
  \/ \E c \in CallIds, id \in DocIds :
       \E doc \in ClientDocs(id) : SaveDocumentCall(c, IdOwner(id), doc)
  \/ \E c \in CallIds : SaveDocumentCall(c, NoUser, NewDoc("d1"))
  \/ \E c \in CallIds, fail \in BOOLEAN : SaveSelect(c, fail)
  \/ \E c \in CallIds, fail \in BOOLEAN : SaveUpload(c, fail)
  \/ \E c \in CallIds, fail \in BOOLEAN : SaveUpsert(c, fail)
  \/ \E c \in CallIds, caller \in Users \cup {NoUser} : GetAllDocumentsCall(c, caller)
  \/ \E c \in CallIds, fail \in BOOLEAN : GetAllSelect(c, fail)
  \/ \E c \in CallIds, id \in DocIds :
       LoadDocumentFileCall(c, IdOwner(id), id, FileName(IdOwner(id), [id |-> id]))
  \/ \E c \in CallIds, fail \in BOOLEAN : LoadDownload(c, fail)
  \/ \E c \in CallIds, id \in DocIds : DeleteDocumentCall(c, IdOwner(id), id)
  \/ \E c \in CallIds, fail \in BOOLEAN : DeleteSelect(c, fail)
  \/ \E c \in CallIds, fail \in BOOLEAN : DeleteRemove(c, fail)
  \/ \E c \in CallIds, fail \in BOOLEAN : DeleteRow(c, fail)
  \/ \E c \in CallIds, caller \in Users : ClearAllDataCall(c, caller)
  \/ \E c \in CallIds, fail \in BOOLEAN : ClearDelete(c, fail)
  \/ \E c \in CallIds : Settle(c)

vars == << table, objects, calls, started, gone, documents, activeDoc, ws, batches,
          view, isOpeningDoc, loadDocsDue, failedOpens, aiCalls, user, stats, downloaded >>

Spec == Init /\ [][Next]_vars

\* ------------------------------------------------------------------------
\* Claims about the storage service
\* ------------------------------------------------------------------------

IsSave(c) == calls[c].op = "saveDocument"

HasPayload(c) == Truthy(calls[c].doc[1], "base64Data")

\* C1: upload-once.  A saveDocument for an id whose row recorded a
\* file_path when the call began and still did when the call read the row
\* issues no upload, whether or not the document carries base64Data.
C1_UploadOnce ==
  \A c \in CallIds :
    IsSave(c) /\ calls[c].atCall /\ calls[c].sawPath
      => \A i \in 1..Len(calls[c].log) : calls[c].log[i] # "upload"

\* C2: a save of a new document (payload present, no row read, no store
\* failure) issues the upload first and the upsert only after the upload
\* has succeeded, and ends with exactly one upload and one upsert.
C2_NewDocumentOneUploadThenUpsert ==
  \A c \in CallIds :
    ( /\ IsSave(c)
      /\ calls[c].pc \in {"upload", "upsert", "done"}
      /\ calls[c].log # << >>
      /\ HasPayload(c)
      /\ calls[c].existing = << >>
      /\ ~calls[c].storeErr )
    => /\ calls[c].pc = "upload" => calls[c].log = << "select" >>
       /\ calls[c].pc = "upsert" =>
            /\ calls[c].log = << "select", "upload" >>
            /\ calls[c].filePath = FileName(calls[c].caller, calls[c].doc[1])
       /\ calls[c].pc = "done" =>
            /\ calls[c].result = "ok"
            /\ calls[c].log = << "select", "upload", "upsert" >>

C2_Witness ==
  \E c \in CallIds :
    /\ IsSave(c) /\ calls[c].pc = "done" /\ calls[c].result = "ok"
    /\ HasPayload(c) /\ calls[c].existing = << >> /\ ~calls[c].storeErr
    /\ calls[c].log = << "select", "upload", "upsert" >>
    /\ HasRow(calls[c].id)

\* C3: once deleteDocument(id) has returned without error for a document
\* whose row recorded a file_path, with no saveDocument for the id during
\* it or since, getAllDocuments returns no document with that id and
\* loadDocumentFile on the former file_path fails.
C3_DeletedStaysGone ==
  \A c \in CallIds :
    calls[c].pc = "done" /\ calls[c].result = "ok"
      => /\ calls[c].op = "loadDocumentFile" => calls[c].id \notin gone
         /\ calls[c].op = "getAllDocuments" =>
              \A i \in 1..Len(calls[c].ret[1]) : calls[c].ret[1][i].id \notin gone

\* C4: whenever saveDocument upserts a row with a file_path, an object
\* exists at that path at the moment of the upsert.
C4_UpsertedPathHasObject ==
  [][ \A c \in CallIds :
        ( /\ At(c, "saveDocument", "upsert")
          /\ calls[c].filePath # << >>
          /\ calls'[c].result = "ok" )
        => calls[c].filePath \in DOMAIN objects ]_vars

\* C5: every error a store returns inside a service call makes the call
\* fail to its caller.
C5_StoreErrorsPropagate ==
  \A c \in CallIds :
    calls[c].pc = "done" /\ calls[c].storeErr => calls[c].result = "error"

C8_HydrateReturnsSavedBytes ==
  \A c \in CallIds :
    calls[c].op = "loadDocumentFile" /\ calls[c].pc = "done" /\ calls[c].result = "ok"
      => LET dec == base64ToBlob(calls[c].ret[1], PdfMime)
         IN  dec.ok /\ dec.blob.bytes = FileBytes(calls[c].id)

C8_Witness ==
  \E c \in CallIds :
    /\ calls[c].op = "loadDocumentFile" /\ calls[c].pc = "done"
    /\ calls[c].result = "ok"
    /\ HasRow(calls[c].id) /\ RowOf(calls[c].id).file_path = calls[c].path

\* C9: no row of the table holds the binary payload: app_data has no
\* base64Data key, whatever document was saved.
C9_NoPayloadInRow ==
  \A i \in 1..Len(table) : "base64Data" \notin DOMAIN table[i].app_data

C9_Witness ==
  \E c \in CallIds :
    /\ IsSave(c) /\ calls[c].pc = "done" /\ calls[c].result = "ok"
    /\ HasPayload(c)
    /\ HasRow(calls[c].id)
    /\ "file_path" \in DOMAIN RowOf(calls[c].id).app_data

\* C10: the upsert of a saveDocument for an id whose row records a
\* file_path leaves that file_path as it is, whatever document is passed.
C10_RecordedPathUnchanged ==
  [][ \A c \in CallIds :
        ( /\ At(c, "saveDocument", "upsert")
          /\ HasRow(calls[c].id)
          /\ RowOf(calls[c].id).file_path # << >>
          /\ calls'[c].result = "ok" )
        => /\ \E i \in 1..Len(table') : table'[i].id = calls[c].id
           /\ \A i \in 1..Len(table') :
                table'[i].id = calls[c].id
                  => table'[i].file_path = RowOf(calls[c].id).file_path ]_vars

\* a metadata-only save (no payload in the document) has rewritten a row
\* that records a file_path
C10_Witness ==
  \E c \in CallIds :
    /\ IsSave(c) /\ calls[c].pc = "done" /\ calls[c].result = "ok"
    /\ ~HasPayload(c)
    /\ calls[c].sawPath
    /\ HasRow(calls[c].id) /\ RowOf(calls[c].id).file_path # << >>

\* C11: a deleteDocument that returns without error for an id whose row
\* records a file_path has issued the removal of the object before the
\* deletion of the row, and when it returns neither the row nor the object
\* at that file_path exists.
C11_DeleteRemovesObjectThenRow ==
  [][ \A c \in CallIds :
        ( /\ At(c, "deleteDocument", "delete")
          /\ HasRow(calls[c].id)
          /\ RowVisible(calls[c].caller, RowOf(calls[c].id))
          /\ RowOf(calls[c].id).file_path # << >>
          /\ calls'[c].result = "ok" )
        => /\ calls'[c].log = << "select", "remove", "delete" >>
           /\ \A i \in 1..Len(table') : table'[i].id # calls[c].id
           /\ RowOf(calls[c].id).file_path \notin DOMAIN objects' ]_vars

\* ------------------------------------------------------------------------
\* One Workspace session
\* ------------------------------------------------------------------------

\* the document of the session: uploaded by u1 (handleFileUpload), saved,
\* and opened from the list as it is (openDocument, App.tsx lines 278-281)
SessionDoc == NewDoc("d1")

SessionPath == FileName(IdOwner("d1"), SessionDoc)

InitWorkspace ==
  /\ table = << InsertedRow(Payload(SessionDoc, IdOwner("d1"), SessionPath)) >>
  /\ objects = (SessionPath :> base64ToBlob(SessionDoc.base64Data, SessionDoc.type).blob)
  /\ calls = [c \in CallIds |-> IdleCall]
  /\ started = 0
  /\ gone = { }
  /\ documents = << SessionDoc >>
  /\ activeDoc = << SessionDoc >>
  /\ ws = WorkspaceMount(SessionDoc)
  /\ batches = << >>
  /\ view = "WORKSPACE"
  /\ isOpeningDoc = FALSE
  /\ loadDocsDue = FALSE
  /\ failedOpens = { }
  /\ aiCalls = << >>
  /\ user = IdOwner("d1")
  /\ stats = [InitialStats EXCEPT !.totalDocs = 1]
  /\ downloaded = { }

NextWorkspace ==
  \/ \E tab \in {"chat", "deep_dive"} : SetActiveTab(tab)
  \/ \E b \in 1..MaxBatches, k \in DeepDiveKeys, ok \in BOOLEAN : GenerationSettles(b, k, ok)
  \/ \E c \in CallIds, fail \in BOOLEAN : SaveSelect(c, fail)
  \/ \E c \in CallIds, fail \in BOOLEAN : SaveUpload(c, fail)
  \/ \E c \in CallIds, fail \in BOOLEAN : SaveUpsert(c, fail)
  \/ \E c \in CallIds : Settle(c)

SpecWorkspace == InitWorkspace /\ [][NextWorkspace]_vars

\* the state the session starts in is one the storage service reaches
SessionStoreReached ==
  /\ table = << InsertedRow(Payload(SessionDoc, IdOwner("d1"), SessionPath)) >>
  /\ objects = (SessionPath :> base64ToBlob(SessionDoc.base64Data, SessionDoc.type).blob)
  /\ \A c \in CallIds : calls[c] = IdleCall

\* a result that batch b generated is in the document
HoldsResultOf(b, doc) ==
  \E k \in DeepDiveKeys : k \in DOMAIN doc /\ doc[k] = Generated(k, b)

\* C6: fan-out all-or-nothing.  A loadDeepDive batch in which a generation
\* call failed never calls onUpdateDocument, and no result of the batch is
\* in the local document, in the documents list, in a row of the table or
\* in a document on its way to the table.
C6_DeepDiveAllOrNothing ==
  \A b \in 1..Len(batches) :
    batches[b].failed
      => /\ ~batches[b].updated
         /\ batches[b].state # "fulfilled"
         /\ ~HoldsResultOf(b, activeDoc[1])
         /\ \A i \in 1..Len(documents) : ~HoldsResultOf(b, documents[i])
         /\ \A i \in 1..Len(table) : ~HoldsResultOf(b, table[i].app_data)
         /\ \A c \in CallIds : IsSave(c) => ~HoldsResultOf(b, calls[c].doc[1])

\* one call of a batch failed, the other two succeeded after it
C6_Witness ==
  \E b \in 1..Len(batches) :
    /\ batches[b].state = "rejected"
    /\ batches[b].gen["mindMap"] = "failed"
    /\ batches[b].gen["strategicAnalysis"] = "done"
    /\ batches[b].gen["keyCitations"] = "done"

\* ------------------------------------------------------------------------
\* App: the library of one signed-in client
\* ------------------------------------------------------------------------

\* the user signed in at the client
AppUser == "u1"

\* faulty variant of OpenedView: the view is set after the try, not inside it
OpenedViewAlways(result, current) == "WORKSPACE"

\* App.tsx lines 299-303: setView(WORKSPACE) runs only when the download
\* returned; the catch leaves the view as it is
OpenedView(result, current) == IF result = "ok" THEN "WORKSPACE" ELSE current

\* App.tsx lines 502-508: a document of the list can be clicked when the
\* library is shown and the download overlay does not cover it
CanOpen(i) ==
  /\ view = "LIBRARY"
  /\ ~isOpeningDoc
  /\ i \in 1..Len(documents)

\* App.tsx lines 276-291: openDocument up to its await
OpenDocument(c, i) ==
  /\ Quiet
  /\ CanOpen(i)
  /\ LET doc == documents[i]
     IN  IF Truthy(doc, "base64Data")
         THEN /\ activeDoc' = << doc >>
              /\ view' = "WORKSPACE"
              /\ loadDocsDue' = TRUE
              /\ ws' = WorkspaceMount(doc)
              /\ UNCHANGED << calls, started, isOpeningDoc >>
         ELSE IF ~Truthy(doc, "file_path")
         THEN UNCHANGED << calls, started, activeDoc, ws, view, isOpeningDoc, loadDocsDue >>
         ELSE /\ CanStart(c)
              /\ started' = started + 1
              /\ isOpeningDoc' = TRUE
              /\ calls' = [calls EXCEPT ![c] =
                             [Begin(c, "loadDocumentFile", AppUser, "download")
                                EXCEPT !.handler = "openDocument",
                                       !.doc = << doc >>,
                                       !.id = doc.id,
                                       !.path = doc.file_path]]
              /\ UNCHANGED << activeDoc, ws, view, loadDocsDue >>
  /\ UNCHANGED << table, objects, gone, documents, batches, failedOpens, aiCalls,
                  sessionVars >>

\* App.tsx lines 292-305: openDocument after its await
OpenDocumentSettle(c) ==
  /\ calls[c].pc = "done"
  /\ calls[c].handler = "openDocument"
  /\ LET call    == calls[c]
         doc     == call.doc[1]
         fullDoc == Hydrated(doc, call.ret[1])
     IN  /\ IF call.result = "ok"
            THEN /\ activeDoc' = << fullDoc >>
                 /\ documents' = [i \in 1..Len(documents) |->
                                    IF documents[i].id = doc.id THEN fullDoc ELSE documents[i]]
                 /\ ws' = WorkspaceMount(fullDoc)
                 /\ downloaded' = IF \E i \in 1..Len(documents) : documents[i].id = doc.id
                                  THEN downloaded \cup {doc.id}
                                  ELSE downloaded
                 /\ UNCHANGED failedOpens
            ELSE /\ failedOpens' = failedOpens \cup {doc.id}
                 /\ UNCHANGED << activeDoc, documents, ws, downloaded >>
         /\ view' = OpenedView(call.result, view)
         /\ loadDocsDue' = (loadDocsDue \/ view' # view)
  /\ isOpeningDoc' = FALSE
  /\ calls' = [calls EXCEPT ![c] = IdleCall]
  /\ UNCHANGED << table, objects, started, gone, batches, aiCalls, user, stats >>

\* App.tsx lines 537, 556, 562: the back button of the Workspace and the
\* two buttons of the sidebar
SetView(v) ==
  /\ Quiet
  /\ view # "AUTH"
  /\ v # view
  /\ view = "WORKSPACE" => v = "LIBRARY"
  /\ view' = v
  /\ loadDocsDue' = TRUE
  /\ UNCHANGED << table, objects, calls, started, gone, documents, activeDoc, ws,
                  batches, isOpeningDoc, failedOpens, aiCalls, sessionVars >>

\* App.tsx lines 81-88, 100-104: the effect of a change of view, up to the
\* await of getAllDocuments
LoadDocsEffect(c) ==
  /\ loadDocsDue
  /\ view # "AUTH"
  /\ user # NoUser
  /\ CanStart(c)
  /\ started' = started + 1
  /\ loadDocsDue' = FALSE
  /\ calls' = [calls EXCEPT ![c] =
                 [Begin(c, "getAllDocuments", AppUser, "select")
                    EXCEPT !.handler = "loadDocs"]]
  /\ UNCHANGED << table, objects, gone, documents, activeDoc, ws, batches,
                  view, isOpeningDoc, failedOpens, aiCalls, sessionVars >>

\* App.tsx lines 88-99: the effect after its await
LoadDocsSettle(c) ==
  /\ calls[c].pc = "done"
  /\ calls[c].handler = "loadDocs"
  /\ documents' = IF calls[c].result = "ok" THEN calls[c].ret[1] ELSE documents
  /\ stats' = IF calls[c].result = "ok"
              THEN [stats EXCEPT !.totalDocs = Len(calls[c].ret[1])]
              ELSE stats
  /\ calls' = [calls EXCEPT ![c] = IdleCall]
  /\ UNCHANGED << table, objects, started, gone, activeDoc, ws, batches, shellVars,
                  aiCalls, user, downloaded >>

\* the library of AppUser after two uploads and a reload of the list
LibraryIds == << "d1", "d2" >>

LibraryRow(id) ==
  InsertedRow(Payload(NewDoc(id), AppUser, FileName(AppUser, NewDoc(id))))

LibraryObject(id) == base64ToBlob(NewDoc(id).base64Data, NewDoc(id).type).blob

InitLibrary ==
  /\ table = [i \in 1..Len(LibraryIds) |-> LibraryRow(LibraryIds[i])]
  /\ objects = [p \in { FileName(AppUser, NewDoc(LibraryIds[i])) : i \in 1..Len(LibraryIds) }
                  |-> LibraryObject(p[3])]
  /\ calls = [c \in CallIds |-> IdleCall]
  /\ started = 0
  /\ gone = { }
  /\ documents = [i \in 1..Len(SelectAll(AppUser)) |-> RowToDocument(SelectAll(AppUser)[i])]
  /\ activeDoc = << >>
  /\ ws = << >>
  /\ batches = << >>
  /\ view = "LIBRARY"
  /\ isOpeningDoc = FALSE
  /\ loadDocsDue = FALSE
  /\ failedOpens = { }
  /\ aiCalls = << >>
  /\ user = AppUser
  /\ stats = [InitialStats EXCEPT !.totalDocs = Len(LibraryIds)]
  /\ downloaded = { }

\* the client, and a second client of the same user that deletes documents
NextLibrary ==
  \/ \E c \in CallIds, i \in 1..Len(LibraryIds) : OpenDocument(c, i)
  \/ \E c \in CallIds : OpenDocumentSettle(c)
  \/ \E v \in {"DASHBOARD", "LIBRARY"} : SetView(v)
  \/ \E c \in CallIds : LoadDocsEffect(c)
  \/ \E c \in CallIds : LoadDocsSettle(c)
  \/ \E c \in CallIds, fail \in BOOLEAN : LoadDownload(c, fail)
  \/ \E c \in CallIds, fail \in BOOLEAN : GetAllSelect(c, fail)
  \/ \E c \in CallIds, id \in {"d1", "d2"} : DeleteDocumentCall(c, AppUser, id)
  \/ \E c \in CallIds, fail \in BOOLEAN : DeleteSelect(c, fail)
  \/ \E c \in CallIds, fail \in BOOLEAN : DeleteRemove(c, fail)
  \/ \E c \in CallIds, fail \in BOOLEAN : DeleteRow(c, fail)
  \/ \E c \in CallIds : Settle(c)

SpecLibrary == InitLibrary /\ [][NextLibrary]_vars

\* the stores the library starts with are stores the storage service reaches
LibraryStoreReached ==
  /\ table = [i \in 1..Len(LibraryIds) |-> LibraryRow(LibraryIds[i])]
  /\ DOMAIN objects = { FileName(AppUser, NewDoc(LibraryIds[i])) : i \in 1..Len(LibraryIds) }
  /\ \A c \in CallIds : calls[c] = IdleCall

\* C12: an openDocument whose download failed leaves the view, activeDoc
\* and the documents list as they are and ends with isOpeningDoc false, so
\* that the same document, still in the list, can be opened again.
C12_FailedOpenIsRecoverable ==
  [][ \A c \in CallIds :
        ( /\ calls[c].pc = "done"
          /\ calls[c].handler = "openDocument"
          /\ calls[c].result = "error"
          /\ calls'[c].pc = "idle" )
        => /\ view' = view
           /\ activeDoc' = activeDoc
           /\ documents' = documents
           /\ isOpeningDoc' = FALSE
           /\ view' = "LIBRARY" =>
                \A i \in 1..Len(documents) :
                  documents[i].id = calls[c].id => CanOpen(i)' ]_vars

\* an openDocument failed for a document and a later openDocument for the
\* same document has downloaded it
C12_Witness ==
  /\ activeDoc # << >>
  /\ activeDoc[1].id \in failedOpens
  /\ Truthy(activeDoc[1], "base64Data")
  /\ view = "WORKSPACE"
  /\ ~isOpeningDoc

\* ------------------------------------------------------------------------
\* saveDocument and loadDocumentFile over the payloads a caller can pass
\* ------------------------------------------------------------------------

\* file contents of zero to three bytes: every padding of the encoding
ByteSeqs == { << >>, << 255 >>, << 37, 80 >>, << 1, 2, 250 >> }

\* MIME strings: a plain one, and one whose quoted parameter holds a comma
Mimes == { PdfMime, << "text/plain;title=\"a", ",", "b\"" >> }

PayloadForms == {"uri", "bare", "corrupt"}

\* the payload of bytes b of type m: as the data URI FileReader makes of
\* the file, as the bare base64 text, and as a data URI with a character
\* that is not base64
PayloadText(b, m, form) ==
  IF form = "uri" THEN blobToBase64([bytes |-> b, type |-> m])
  ELSE IF form = "bare" THEN btoa(b)
  ELSE blobToBase64([bytes |-> b, type |-> m]) \o << "!" >>

PayloadDoc(id, b, m, form) ==
  [NewDoc(id) EXCEPT !.size = Len(b), !.type = m, !.base64Data = PayloadText(b, m, form)]

\* one caller that awaits each call before it makes the next
NextPayloads ==
  \/ \E b \in ByteSeqs, m \in Mimes, form \in PayloadForms :
       SaveDocumentCall(1, AppUser, PayloadDoc("d1", b, m, form))
  \/ \E c \in CallIds, fail \in BOOLEAN : SaveSelect(c, fail)
  \/ \E c \in CallIds, fail \in BOOLEAN : SaveUpload(c, fail)
  \/ \E c \in CallIds, fail \in BOOLEAN : SaveUpsert(c, fail)
  \/ LoadDocumentFileCall(1, AppUser, "d1", FileName(AppUser, [id |-> "d1"]))
  \/ \E c \in CallIds, fail \in BOOLEAN : LoadDownload(c, fail)
  \/ \E c \in CallIds : Settle(c)

SpecPayloads == Init /\ [][NextPayloads]_vars

\* C13: when the decoding of the payload fails inside saveDocument, the
\* call fails to its caller having issued the row read only, no upload and
\* no upsert, and the step leaves the table and the bucket as they are.
C13_DecodeErrorNoPartialWrite ==
  [][ \A c \in CallIds :
        ( /\ IsSave(c)
          /\ calls'[c] # calls[c]
          /\ calls'[c].op = "saveDocument"
          /\ calls'[c].decoded # << >>
          /\ ~calls'[c].decoded[1].ok )
        => /\ calls'[c].pc = "done"
           /\ calls'[c].result = "error"
           /\ calls'[c].log = << "select" >>
           /\ table' = table
           /\ objects' = objects ]_vars

\* a save of a data URI that holds a character outside base64 has failed
C13_Witness ==
  \E c \in CallIds :
    /\ IsSave(c) /\ calls[c].pc = "done" /\ calls[c].result = "error"
    /\ calls[c].decoded # << >> /\ ~calls[c].decoded[1].ok
    /\ \E b \in ByteSeqs :
         calls[c].doc[1].base64Data = PayloadText(b, PdfMime, "corrupt")
    /\ ~calls[c].storeErr

\* C14: the decoder of saveDocument returns for a payload passed as bare
\* base64 text the bytes it returns for the same payload passed as a data
\* URI.
C14_BarePayloadDecodes ==
  \A c \in CallIds :
    IsSave(c) /\ calls[c].decoded # << >>
      => \A b \in ByteSeqs :
           LET doc    == calls[c].doc[1]
               header == base64ToBlob(PayloadText(b, doc.type, "uri"), doc.type)
           IN  doc.base64Data = PayloadText(b, doc.type, "bare") /\ header.ok
                 => /\ calls[c].decoded[1].ok
                    /\ calls[c].decoded[1].blob.bytes = header.blob.bytes

\* C15: codec round trip.  The decoder of saveDocument makes of the data
\* URI that the encoder makes of bytes b and MIME string m exactly b, for
\* every b, empty or not, and every m.
C15_CodecRoundTrip ==
  \A c \in CallIds :
    IsSave(c) /\ calls[c].decoded # << >>
      => \A b \in ByteSeqs, m \in Mimes :
           calls[c].doc[1].base64Data = blobToBase64([bytes |-> b, type |-> m])
             => /\ calls[c].decoded[1].ok
                /\ calls[c].decoded[1].blob.bytes = b

\* ------------------------------------------------------------------------
\* Workspace: the chat of one session
\* ------------------------------------------------------------------------

\* the chat and rewrite calls of one behaviour: two, which is what a reply
\* that arrives after a second send or during a rewrite takes
AiCallIds == {1, 2}

\* the positions of the messages two sends and their replies make
MessagePositions == 1..(2 * Cardinality(AiCallIds))

\* App.tsx lines 533-543: the Workspace is rendered while the view is
\* WORKSPACE and a document is active
Mounted == view = "WORKSPACE" /\ activeDoc # << >>

UserMessage(id, text) == [id |-> id, role |-> "user", text |-> text]

ModelMessage(id, text) == [id |-> id, role |-> "model", text |-> text]

QuestionText == << "question" >>

ReplyText == << "reply" >>

ErrorText == << "Desole, j'ai rencontre une erreur." >>

RewrittenText == << "rewritten" >>

\* { ...doc, chatHistory: msgs }
WithChatHistory(doc, msgs) == Spread(doc, [chatHistory |-> msgs])

\* !msg.k of a flag that may be undefined
Flag(msg, k) == k \in DOMAIN msg /\ msg[k]

\* handleLikeMessage: the toggle of one message
Toggled(msg, isLike) ==
  IF isLike
  THEN Spread(msg, [isLiked |-> ~Flag(msg, "isLiked"), isDisliked |-> FALSE])
  ELSE Spread(msg, [isDisliked |-> ~Flag(msg, "isDisliked"), isLiked |-> FALSE])

\* messages.map(msg => msg.id === id ? F(msg) : msg) for the two handlers
LikeIn(msgs, id, isLike) ==
  [i \in 1..Len(msgs) |-> IF msgs[i].id = id THEN Toggled(msgs[i], isLike) ELSE msgs[i]]

RewriteIn(msgs, id, newText) ==
  [i \in 1..Len(msgs) |-> IF msgs[i].id = id THEN Spread(msgs[i], [text |-> newText])
                          ELSE msgs[i]]

\* a call to the AI service as its handler holds it: the doc and the
\* message list of the render the handler was called in
AiCall(kind, doc, msgs, target) ==
  [ kind     |-> kind,
    doc      |-> doc,
    messages |-> msgs,
    target   |-> target,
    state    |-> "pending" ]

\* setState of a component that is not mounted does nothing; the clock
\* runs on all the same
SetWorkspace(next) ==
  ws' = IF Mounted THEN next ELSE [ws EXCEPT !.now = next.now]

\* handleSendMessage up to its await: the message is appended from the
\* messages of the render, and the list goes to onUpdateDocument
HandleSendMessage(c, text) ==
  /\ Quiet
  /\ Mounted
  /\ Len(aiCalls) < Cardinality(AiCallIds)
  /\ LET doc             == activeDoc[1]
         newMessage      == UserMessage(ws.now, text)
         updatedMessages == Append(ws.messages, newMessage)
     IN  /\ SetWorkspace([ws EXCEPT !.messages = updatedMessages,
                                    !.isChatLoading = TRUE,
                                    !.now = @ + 1])
         /\ aiCalls' = Append(aiCalls, AiCall("chat", doc, updatedMessages, 0))
         /\ HandleUpdateDocument(c, WithChatHistory(doc, updatedMessages))
  /\ UNCHANGED << batches, shellVars, sessionVars >>

\* handleSendMessage after its await: [...updatedMessages, message] with
\* the updatedMessages the handler holds, not the list of the component
SettledMessages(held, current, msg) == Append(held, msg)

\* handleSendMessage after its await: the reply, or the error message,
\* which does not go to onUpdateDocument
ChatSettles(a, ok) ==
  /\ Quiet
  /\ a \in 1..Len(aiCalls)
  /\ aiCalls[a].kind = "chat"
  /\ aiCalls[a].state = "pending"
  /\ aiCalls' = [aiCalls EXCEPT ![a].state = IF ok THEN "done" ELSE "failed"]
  /\ LET call  == aiCalls[a]
         msg   == ModelMessage(ws.now, IF ok THEN ReplyText ELSE ErrorText)
         final == SettledMessages(call.messages, ws.messages, msg)
     IN  /\ SetWorkspace([ws EXCEPT !.messages = final,
                                    !.isChatLoading = FALSE,
                                    !.now = @ + 1])
         /\ IF ok
            THEN \E c \in CallIds : HandleUpdateDocument(c, WithChatHistory(call.doc, final))
            ELSE UNCHANGED << table, objects, calls, started, gone, documents, activeDoc >>
  /\ UNCHANGED << batches, shellVars, sessionVars >>

\* the like and rewrite buttons are shown under a message of the model
\* while no rewrite is running
CanAct(i) ==
  /\ Mounted
  /\ i \in 1..Len(ws.messages)
  /\ ws.messages[i].role = "model"
  /\ ws.rewritingMessageId = 0

\* handleLikeMessage
HandleLikeMessage(c, i, isLike) ==
  /\ Quiet
  /\ CanAct(i)
  /\ LET updatedMessages == LikeIn(ws.messages, ws.messages[i].id, isLike)
     IN  /\ SetWorkspace([ws EXCEPT !.messages = updatedMessages])
         /\ HandleUpdateDocument(c, WithChatHistory(activeDoc[1], updatedMessages))
  /\ UNCHANGED << batches, shellVars, aiCalls, sessionVars >>

\* handleRewriteMessage up to its await
HandleRewriteMessage(i) ==
  /\ Quiet
  /\ CanAct(i)
  /\ Len(aiCalls) < Cardinality(AiCallIds)
  /\ SetWorkspace([ws EXCEPT !.rewritingMessageId = ws.messages[i].id])
  /\ aiCalls' = Append(aiCalls,
                  AiCall("rewrite", activeDoc[1], ws.messages, ws.messages[i].id))
  /\ UNCHANGED << table, objects, calls, started, gone, documents, activeDoc,
                  batches, shellVars, sessionVars >>

\* handleRewriteMessage after its await: the text is replaced in the
\* messages the handler holds
RewriteSettles(a, ok) ==
  /\ Quiet
  /\ a \in 1..Len(aiCalls)
  /\ aiCalls[a].kind = "rewrite"
  /\ aiCalls[a].state = "pending"
  /\ aiCalls' = [aiCalls EXCEPT ![a].state = IF ok THEN "done" ELSE "failed"]
  /\ LET call            == aiCalls[a]
         updatedMessages == RewriteIn(call.messages, call.target, RewrittenText)
     IN  IF ok
         THEN /\ SetWorkspace([ws EXCEPT !.messages = updatedMessages,
                                         !.rewritingMessageId = 0])
              /\ \E c \in CallIds :
                   HandleUpdateDocument(c, WithChatHistory(call.doc, updatedMessages))
         ELSE /\ SetWorkspace([ws EXCEPT !.rewritingMessageId = 0])
              /\ UNCHANGED << table, objects, calls, started, gone, documents, activeDoc >>
  /\ UNCHANGED << batches, shellVars, sessionVars >>

\* App.tsx lines 224-229: handleDeleteActiveDoc up to its await
HandleDeleteActiveDoc(c) ==
  /\ Mounted
  /\ CanStart(c)
  /\ started' = started + 1
  /\ calls' = [calls EXCEPT ![c] =
                 [Begin(c, "deleteDocument", AppUser, "select")
                    EXCEPT !.handler = "handleDeleteActiveDoc",
                           !.id = activeDoc[1].id,
                           !.overlap = \E b \in CallIds :
                                          /\ calls[b].op = "saveDocument"
                                          /\ calls[b].id = activeDoc[1].id]]
  /\ UNCHANGED << table, objects, gone, appVars >>

\* App.tsx lines 230-237: handleDeleteActiveDoc after its await
HandleDeleteActiveDocSettle(c) ==
  /\ calls[c].pc = "done"
  /\ calls[c].handler = "handleDeleteActiveDoc"
  /\ IF calls[c].result = "ok"
     THEN /\ documents' = SelectSeq(documents, LAMBDA d : d.id # calls[c].id)
          /\ stats' = [stats EXCEPT !.totalDocs = @ - 1]
          /\ activeDoc' = << >>
          /\ view' = "LIBRARY"
          /\ loadDocsDue' = (loadDocsDue \/ view # "LIBRARY")
     ELSE UNCHANGED << documents, stats, activeDoc, view, loadDocsDue >>
  /\ calls' = [calls EXCEPT ![c] = IdleCall]
  /\ UNCHANGED << table, objects, started, gone, ws, batches, isOpeningDoc,
                  failedOpens, aiCalls, user, downloaded >>

\* one session with the AI service failing or not, over stores that answer
NextChat ==
  \/ \E c \in CallIds : HandleSendMessage(c, QuestionText)
  \/ \E a \in AiCallIds, ok \in BOOLEAN : ChatSettles(a, ok)
  \/ \E c \in CallIds, i \in MessagePositions, isLike \in BOOLEAN :
       HandleLikeMessage(c, i, isLike)
  \/ \E i \in MessagePositions : HandleRewriteMessage(i)
  \/ \E a \in AiCallIds, ok \in BOOLEAN : RewriteSettles(a, ok)
  \/ SetView("LIBRARY")
  \/ \E c \in CallIds : HandleDeleteActiveDoc(c)
  \/ \E c \in CallIds : HandleDeleteActiveDocSettle(c)
  \/ \E c \in CallIds : SaveSelect(c, FALSE)
  \/ \E c \in CallIds : SaveUpload(c, FALSE)
  \/ \E c \in CallIds : SaveUpsert(c, FALSE)
  \/ \E c \in CallIds : DeleteSelect(c, FALSE)
  \/ \E c \in CallIds : DeleteRemove(c, FALSE)
  \/ \E c \in CallIds : DeleteRow(c, FALSE)
  \/ \E c \in CallIds : Settle(c)

SpecChat == InitWorkspace /\ [][NextChat]_vars

\* C16: every change of the message list of the Workspace (a message sent,
\* a reply or an error reply appended, a like toggled, a message rewritten)
\* comes with an onUpdateDocument call whose chatHistory is the new list:
\* the active document holds it and a saveDocument is started with it.
C16_ChatPersistedOnEveryMutation ==
  [][ ( Mounted /\ ws'.messages # ws.messages )
      => /\ activeDoc' # << >>
         /\ ChatHistoryOf(activeDoc'[1]) = ws'.messages
         /\ \E c \in CallIds :
              /\ calls'[c] # calls[c]
              /\ calls'[c].op = "saveDocument"
              /\ ChatHistoryOf(calls'[c].doc[1]) = ws'.messages ]_vars

\* C17: the transcript is append-only during a session: a message of the
\* list stays in the list at its position, whatever the order of sends,
\* rewrites, likes and replies.
C17_TranscriptAppendOnly ==
  [][ Mounted
      => \A i \in 1..Len(ws.messages) :
           /\ i <= Len(ws'.messages)
           /\ ws'.messages[i].id = ws.messages[i].id ]_vars

\* C18: the result of a chat or rewrite call that resolves after the user
\* has left the Workspace is discarded: the step changes neither activeDoc
\* nor the documents list and starts no saveDocument.
C18_AbandonedResultDiscarded ==
  [][ \A a \in 1..Len(aiCalls) :
        ( /\ ~Mounted
          /\ aiCalls[a].state = "pending"
          /\ aiCalls'[a].state # "pending" )
        => /\ activeDoc' = activeDoc
           /\ documents' = documents
           /\ started' = started
           /\ calls' = calls ]_vars

\* C19: a saveDocument that reaches its upsert has issued an upload if and
\* only if the document has a non-empty base64Data and, when the call read
\* the row, no row existed for the id or the row had no file_path; when it
\* has issued none, the upserted row carries the file_path recorded before
\* (the one the row holds, or the one the call read when the row is gone
\* since), or none when none was recorded.
C19_UploadIffPayloadAndNoPath ==
  [][ \A c \in CallIds :
        ( /\ At(c, "saveDocument", "upsert")
          /\ calls'[c].result = "ok" )
        => LET uploaded == \E i \in 1..Len(calls[c].log) : calls[c].log[i] = "upload"
               before   == IF HasRow(calls[c].id) THEN RowOf(calls[c].id).file_path
                           ELSE calls[c].filePath
           IN  /\ uploaded <=> (HasPayload(c) /\ ~calls[c].sawPath)
               /\ ~uploaded =>
                    \E i \in 1..Len(table') :
                      /\ table'[i].id = calls[c].id
                      /\ table'[i].file_path = before ]_vars

\* ------------------------------------------------------------------------
\* Listing the library while documents are saved and deleted
\* ------------------------------------------------------------------------

\* clients of AppUser that save, delete and list the first document of
\* the library
NextListing ==
  \/ \E c \in CallIds :
       \E doc \in ClientDocs("d1") : SaveDocumentCall(c, AppUser, doc)
  \/ \E c \in CallIds, fail \in BOOLEAN : SaveSelect(c, fail)
  \/ \E c \in CallIds, fail \in BOOLEAN : SaveUpload(c, fail)
  \/ \E c \in CallIds, fail \in BOOLEAN : SaveUpsert(c, fail)
  \/ \E c \in CallIds : GetAllDocumentsCall(c, AppUser)
  \/ \E c \in CallIds, fail \in BOOLEAN : GetAllSelect(c, fail)
  \/ \E c \in CallIds : DeleteDocumentCall(c, AppUser, "d1")
  \/ \E c \in CallIds, fail \in BOOLEAN : DeleteSelect(c, fail)
  \/ \E c \in CallIds, fail \in BOOLEAN : DeleteRemove(c, fail)
  \/ \E c \in CallIds, fail \in BOOLEAN : DeleteRow(c, fail)
  \/ \E c \in CallIds : Settle(c)

SpecListing == InitLibrary /\ [][NextListing]_vars

\* C20: a getAllDocuments that returns gives one Document for each row of
\* the caller, newest first, none with a base64Data, each with the id and
\* the file_path of the columns of its row, whatever app_data holds for
\* those keys.
C20_ListedFromColumns ==
  [][ \A c \in CallIds :
        ( /\ At(c, "getAllDocuments", "select")
          /\ calls'[c].result = "ok" )
        => LET rows == SelectAll(calls[c].caller)
               docs == calls'[c].ret[1]
           IN  /\ Len(docs) = Len(rows)
               /\ \A i \in 1..Len(docs) :
                    /\ "base64Data" \notin DOMAIN docs[i]
                    /\ docs[i].id = rows[i].id
                    /\ docs[i].file_path = rows[i].file_path ]_vars

\* a list was returned with a document whose row holds in app_data a
\* file_path that is not the one of its column
C20_Witness ==
  \E c \in CallIds :
    /\ calls[c].op = "getAllDocuments" /\ calls[c].pc = "done"
    /\ calls[c].result = "ok"
    /\ \E i \in 1..Len(calls[c].ret[1]) :
         LET doc == calls[c].ret[1][i]
         IN  /\ HasRow(doc.id)
             /\ RowOf(doc.id).file_path = doc.file_path
             /\ "file_path" \in DOMAIN RowOf(doc.id).app_data
             /\ RowOf(doc.id).app_data.file_path # doc.file_path

\* ------------------------------------------------------------------------
\* Claims about overlapping saves
\* ------------------------------------------------------------------------

Uploaded(c) == \E i \in 1..Len(calls[c].log) : calls[c].log[i] = "upload"

\* two saveDocument calls for one id are in flight, both with a payload,
\* and both have read the table and found no row
RacingSaves(c, d) ==
  /\ c # d
  /\ IsSave(c) /\ IsSave(d)
  /\ calls[c].id = calls[d].id
  /\ HasPayload(c) /\ HasPayload(d)
  /\ calls[c].log # << >> /\ calls[d].log # << >>
  /\ calls[c].existing = << >> /\ calls[d].existing = << >>

\* C21: of two overlapping saveDocument calls for one id that both carry a
\* payload and both read the table before either has upserted, each issues
\* an upload, to the same derived path, and the upsert of each leaves a row
\* that records that path.
C21_RacingSavesBothUpload ==
  [][ \A c, d \in CallIds :
        ( /\ RacingSaves(c, d)
          /\ At(c, "saveDocument", "upsert")
          /\ calls'[c].result = "ok" )
        => /\ Uploaded(c)
           /\ Uploaded(d) \/ calls[d].pc = "upload"
           /\ FileName(calls[d].caller, calls[d].doc[1]) = calls[c].filePath
           /\ \E i \in 1..Len(table') :
                /\ table'[i].id = calls[c].id
                /\ table'[i].file_path = calls[c].filePath ]_vars

\* both calls have uploaded, the first has upserted and the second is about
\* to: two uploads for one id
C21_Witness ==
  \E c, d \in CallIds :
    /\ RacingSaves(c, d)
    /\ Uploaded(c) /\ Uploaded(d)
    /\ ~calls[c].storeErr /\ ~calls[d].storeErr
    /\ calls[c].pc = "done" /\ calls[c].result = "ok"
    /\ calls[d].pc = "upsert"
    /\ HasRow(calls[c].id)
    /\ RowOf(calls[c].id).file_path = calls[d].filePath

\* ------------------------------------------------------------------------
\* App: the session, uploads, deletes of the library and the analytics
\* ------------------------------------------------------------------------

\* App.tsx lines 61-78: the callback is registered by an effect with no
\* dependencies, so the view it reads is the view of the first render
ViewInAuthCallback == "AUTH"

\* App.tsx lines 61-75: the onAuthStateChange callback; session is the user
\* of the session the event carries, NoUser for none.  setUser with a new
\* object re-runs the loadDocs effect
AuthStateChange(session) ==
  /\ Quiet
  /\ session = NoUser => user # NoUser
  /\ IF session # NoUser
     THEN /\ user' = session
          /\ view' = IF ViewInAuthCallback = "AUTH" THEN "DASHBOARD" ELSE view
          /\ loadDocsDue' = TRUE
          /\ UNCHANGED downloaded
     ELSE /\ user' = NoUser
          /\ view' = "AUTH"
          /\ loadDocsDue' = FALSE
          /\ downloaded' = { }
  /\ UNCHANGED << table, objects, calls, started, gone, documents, activeDoc, ws,
                  batches, isOpeningDoc, failedOpens, aiCalls, stats >>

\* App.tsx lines 155-160 and 583: sign-out from the sidebar, with the
\* SIGNED_OUT event it raises
HandleSignOut ==
  /\ Quiet
  /\ view # "AUTH"
  /\ ~Mounted
  /\ documents' = << >>
  /\ user' = NoUser
  /\ view' = "AUTH"
  /\ loadDocsDue' = FALSE
  /\ downloaded' = { }
  /\ UNCHANGED << table, objects, calls, started, gone, activeDoc, ws, batches,
                  isOpeningDoc, failedOpens, aiCalls, stats >>

\* a call of the App that sets isLoading is in flight
Loading ==
  \/ loadDocsDue
  \/ \E b \in CallIds :
       calls[b].handler \in {"loadDocs", "handleFileUpload", "handleClearAllData"}

\* generateId: an id no document has
FreshId(id) ==
  /\ ~HasRow(id)
  /\ \A i \in 1..Len(documents) : documents[i].id # id
  /\ \A b \in CallIds : calls[b].id # id
  /\ activeDoc # << >> => activeDoc[1].id # id

\* an entry of stats.recentActivity
Activity(action, docName) == [action |-> action, docName |-> docName]

\* App.tsx lines 162-190 and 484: handleFileUpload up to the await of
\* saveDocument; the input is in the library and is disabled while isLoading
HandleFileUpload(c, id) ==
  /\ view = "LIBRARY"
  /\ user # NoUser
  /\ ~Loading
  /\ FreshId(id)
  /\ SaveDocumentFrom(c, user, NewDoc(id), "handleFileUpload")
  /\ UNCHANGED appVars

\* App.tsx lines 191-205: handleFileUpload after the await
HandleFileUploadSettle(c) ==
  /\ calls[c].pc = "done"
  /\ calls[c].handler = "handleFileUpload"
  /\ LET newDoc == calls[c].doc[1]
     IN  IF calls[c].result = "ok"
         THEN /\ documents' = << newDoc >> \o documents
              /\ stats' = [stats EXCEPT
                             !.totalDocs = @ + 1,
                             !.recentActivity = << Activity("upload", newDoc.name) >> \o @]
         ELSE UNCHANGED << documents, stats >>
  /\ calls' = [calls EXCEPT ![c] = IdleCall]
  /\ UNCHANGED << table, objects, started, gone, activeDoc, ws, batches, shellVars,
                  aiCalls, user, downloaded >>

\* App.tsx lines 211-216 and 516: handleDeleteDoc up to its await
HandleDeleteDoc(c, i) ==
  /\ CanOpen(i)
  /\ CanStart(c)
  /\ started' = started + 1
  /\ calls' = [calls EXCEPT ![c] =
                 [Begin(c, "deleteDocument", user, "select")
                    EXCEPT !.handler = "handleDeleteDoc",
                           !.id = documents[i].id,
                           !.overlap = \E b \in CallIds :
                                          /\ calls[b].op = "saveDocument"
                                          /\ calls[b].id = documents[i].id]]
  /\ UNCHANGED << table, objects, gone, appVars >>

\* App.tsx lines 216-221: handleDeleteDoc after its await
HandleDeleteDocSettle(c) ==
  /\ calls[c].pc = "done"
  /\ calls[c].handler = "handleDeleteDoc"
  /\ IF calls[c].result = "ok"
     THEN /\ documents' = SelectSeq(documents, LAMBDA d : d.id # calls[c].id)
          /\ stats' = [stats EXCEPT !.totalDocs = @ - 1]
     ELSE UNCHANGED << documents, stats >>
  /\ calls' = [calls EXCEPT ![c] = IdleCall]
  /\ UNCHANGED << table, objects, started, gone, activeDoc, ws, batches, shellVars,
                  aiCalls, user, downloaded >>

\* App.tsx lines 240-245 and 579: handleClearAllData up to its await
HandleClearAllData(c) ==
  /\ view # "AUTH"
  /\ ~Mounted
  /\ CanStart(c)
  /\ started' = started + 1
  /\ calls' = [calls EXCEPT ![c] =
                 [Begin(c, "clearAllData", user, "delete")
                    EXCEPT !.handler = "handleClearAllData"]]
  /\ UNCHANGED << table, objects, gone, appVars >>

\* App.tsx lines 246-261: handleClearAllData after its await
HandleClearAllDataSettle(c) ==
  /\ calls[c].pc = "done"
  /\ calls[c].handler = "handleClearAllData"
  /\ IF calls[c].result = "ok"
     THEN /\ documents' = << >>
          /\ stats' = InitialStats
          /\ view' = "DASHBOARD"
          /\ loadDocsDue' = (loadDocsDue \/ view # "DASHBOARD")
     ELSE UNCHANGED << documents, stats, view, loadDocsDue >>
  /\ calls' = [calls EXCEPT ![c] = IdleCall]
  /\ UNCHANGED << table, objects, started, gone, activeDoc, ws, batches, isOpeningDoc,
                  failedOpens, aiCalls, user, downloaded >>

\* one client of AppUser over its library, the stores answering
NextSession ==
  \/ AuthStateChange(AppUser)
  \/ AuthStateChange(NoUser)
  \/ HandleSignOut
  \/ \E v \in {"DASHBOARD", "LIBRARY"} : SetView(v)
  \/ \E c \in CallIds : LoadDocsEffect(c)
  \/ \E c \in CallIds : LoadDocsSettle(c)
  \/ \E c \in CallIds, i \in 1..Len(LibraryIds) : OpenDocument(c, i)
  \/ \E c \in CallIds : OpenDocumentSettle(c)
  \/ \E c \in CallIds, id \in {"d1", "d2"} : HandleFileUpload(c, id)
  \/ \E c \in CallIds : HandleFileUploadSettle(c)
  \/ \E c \in CallIds, i \in 1..Len(LibraryIds) : HandleDeleteDoc(c, i)
  \/ \E c \in CallIds : HandleDeleteDocSettle(c)
  \/ \E c \in CallIds : HandleClearAllData(c)
  \/ \E c \in CallIds : HandleClearAllDataSettle(c)
  \/ \E c \in CallIds : SaveSelect(c, FALSE)
  \/ \E c \in CallIds : SaveUpload(c, FALSE)
  \/ \E c \in CallIds : SaveUpsert(c, FALSE)
  \/ \E c \in CallIds : GetAllSelect(c, FALSE)
  \/ \E c \in CallIds : LoadDownload(c, FALSE)
  \/ \E c \in CallIds : DeleteSelect(c, FALSE)
  \/ \E c \in CallIds : DeleteRemove(c, FALSE)
  \/ \E c \in CallIds : DeleteRow(c, FALSE)
  \/ \E c \in CallIds : ClearDelete(c, FALSE)

SpecSession == InitLibrary /\ [][NextSession]_vars

\* ------------------------------------------------------------------------
\* Claims about the session of the App
\* ------------------------------------------------------------------------

\* an openDocument issues its loadDocumentFile call in this step
IssuesDownload(c) ==
  /\ calls[c].pc = "idle"
  /\ calls'[c].handler = "openDocument"
  /\ calls'[c].op = "loadDocumentFile"

\* C22: once an openDocument has downloaded the file of a document and put
\* it into the documents list, no later openDocument for the same document
\* issues a loadDocumentFile call, whatever views the user went through.
C22_DownloadedOncePerSession ==
  [][ \A c \in CallIds : IssuesDownload(c) => calls'[c].id \notin downloaded ]_vars

\* C23: an auth state-change event that carries a session sets the view to
\* DASHBOARD only when the view is AUTH; in the views DASHBOARD, LIBRARY and
\* WORKSPACE the event leaves the view as it is.
C23_SessionEventKeepsView ==
  [][ AuthStateChange(AppUser) =>
        view' = IF view = "AUTH" THEN "DASHBOARD" ELSE view ]_vars

\* C27: no user is signed in only in the view AUTH, also when a call that
\* was in flight at sign-out completes afterwards.
C27_SignedOutShowsAuth == user = NoUser => view = "AUTH"

\* C28: stats.totalDocs is never negative, and it is the length of the
\* documents list whenever a user is signed in and no load, upload, delete
\* or clear is in flight.
C28_TotalDocsIsListLength ==
  /\ stats.totalDocs >= 0
  /\ ( /\ user # NoUser
       /\ ~loadDocsDue
       /\ \A c \in CallIds : calls[c].op = "idle" )
     => stats.totalDocs = Len(documents)

\* ------------------------------------------------------------------------
\* Workspace: the chat and the deep dive of one session
\* ------------------------------------------------------------------------

\* the one question of the session
AskOnce(c) == aiCalls = << >> /\ HandleSendMessage(c, QuestionText)

\* the tabs, until the deep dive was opened
SetActiveTabOnce(tab) == batches = << >> /\ SetActiveTab(tab)

\* one session that asks one question and opens the deep dive once, the AI
\* service and the stores answering; the row holds the path of the file, so
\* no save uploads
NextArtifacts ==
  \/ \E c \in CallIds : AskOnce(c)
  \/ \E a \in AiCallIds : ChatSettles(a, TRUE)
  \/ \E tab \in {"chat", "deep_dive"} : SetActiveTabOnce(tab)
  \/ \E b \in 1..MaxBatches, k \in DeepDiveKeys : GenerationSettles(b, k, TRUE)
  \/ \E c \in CallIds : SaveSelect(c, FALSE)
  \/ \E c \in CallIds : SaveUpsert(c, FALSE)
  \/ \E c \in CallIds : Settle(c)

SpecArtifacts == InitWorkspace /\ [][NextArtifacts]_vars

\* the upsert of save c writes the row in this step
Upserts(c) ==
  /\ At(c, "saveDocument", "upsert")
  /\ calls'[c].result = "ok"
  /\ HasRow(calls[c].id)

\* save c is the one a fulfilled loadDeepDive issued
FromDeepDive(c) ==
  \E b \in 1..Len(batches) :
    /\ batches[b].updated
    /\ calls[c].doc[1] = WithDeepDive(batches[b].doc,
                                      BatchValue(b, "mindMap"),
                                      BatchValue(b, "strategicAnalysis"),
                                      BatchValue(b, "keyCitations"))

\* C24: an artifact the row of a document holds is not removed or reverted
\* by a save that another artifact triggered: no save takes a deep-dive
\* artifact out of the row (the saves of a deep dive carry all three), and
\* the save of a deep dive does not take messages out of the chatHistory of
\* the row.
C24_ArtifactsKeptByOtherSaves ==
  [][ \A c \in CallIds :
        Upserts(c) =>
          LET before == RowOf(calls[c].id).app_data
              after  == MetaData(calls[c].doc[1])
          IN  /\ \A k \in DeepDiveKeys : k \in DOMAIN before => k \in DOMAIN after
              /\ FromDeepDive(c) =>
                   Len(ChatHistoryOf(after)) >= Len(ChatHistoryOf(before)) ]_vars

\* C25: when every save handleUpdateDocument issued for the document has
\* completed without error, the app_data of the row is the metadata of the
\* activeDoc, the last update issued.
C25_RowHoldsLastUpdate ==
  ( /\ started > 0
    /\ \A c \in CallIds : calls[c].op = "idle"
    /\ activeDoc # << >>
    /\ HasRow(activeDoc[1].id) )
  => RowOf(activeDoc[1].id).app_data = MetaData(activeDoc[1])

\* the id is not in the documents list; the list of the session loses an
\* id only in the continuation of a delete that succeeded
LocallyDeleted(id) == \A i \in 1..Len(documents) : documents[i].id # id

\* C26: once a delete of a document has succeeded and its id is out of the
\* documents list, nothing that completes later puts the id back into the
\* list or makes its row or its stored object again.
C26_DeletedStaysDeleted ==
  [][ LocallyDeleted(SessionDoc.id) =>
        /\ LocallyDeleted(SessionDoc.id)'
        /\ HasRow(SessionDoc.id)' => HasRow(SessionDoc.id)
        /\ SessionPath \in DOMAIN objects' => SessionPath \in DOMAIN objects ]_vars

\* ------------------------------------------------------------------------
\* App: the analytics of one session
\* ------------------------------------------------------------------------

\* flashcard decks and finished quizzes counted in one behaviour
MaxCounted == 5

\* cards.length of a deck generateFlashcards returned
DeckSizes == {1, 2}

\* newActivity.slice(0, 5)
Slice5(seq) == SubSeq(seq, 1, IF Len(seq) < 5 THEN Len(seq) ELSE 5)

\* activeDoc?.name || 'Doc'
ActiveDocName == IF activeDoc # << >> THEN activeDoc[1].name ELSE << "Doc" >>

\* App.tsx lines 308-319: updateStats, called by the Workspace with a deck
\* (Workspace.tsx line 306) or a finished quiz (line 787)
StatsAfter(type, count) ==
  LET newActivity == << Activity(type, ActiveDocName) >> \o stats.recentActivity
  IN  IF type = "flashcard"
      THEN [stats EXCEPT !.totalFlashcardsGenerated = @ + count,
                         !.recentActivity = Slice5(newActivity)]
      ELSE [stats EXCEPT !.quizzesTaken = @ + count,
                         !.recentActivity = Slice5(newActivity)]

\* a deck generated or a quiz finished in the Workspace
UpdateStats(type, count) ==
  /\ Quiet
  /\ Mounted
  /\ stats.totalFlashcardsGenerated + stats.quizzesTaken < MaxCounted
  /\ stats' = StatsAfter(type, count)
  /\ UNCHANGED << table, objects, calls, started, gone, documents, activeDoc, ws,
                  batches, shellVars, aiCalls, user, downloaded >>

\* one session: decks and quizzes in the Workspace, then the library and an
\* upload, the stores answering
NextStats ==
  \/ \E n \in DeckSizes : UpdateStats("flashcard", n)
  \/ UpdateStats("quiz", 1)
  \/ \E v \in {"DASHBOARD", "LIBRARY"} : SetView(v)
  \/ \E c \in CallIds : LoadDocsEffect(c)
  \/ \E c \in CallIds : GetAllSelect(c, FALSE)
  \/ \E c \in CallIds : LoadDocsSettle(c)
  \/ \E c \in CallIds : HandleFileUpload(c, "d2")
  \/ \E c \in CallIds : SaveSelect(c, FALSE)
  \/ \E c \in CallIds : SaveUpload(c, FALSE)
  \/ \E c \in CallIds : SaveUpsert(c, FALSE)
  \/ \E c \in CallIds : HandleFileUploadSettle(c)

SpecStats == InitWorkspace /\ [][NextStats]_vars

\* C29: stats.recentActivity never holds more than 5 entries, after any
\* sequence of uploads, flashcard generations and finished quizzes.
C29_RecentActivityAtMostFive == Len(stats.recentActivity) <= 5

\* ------------------------------------------------------------------------
\* Workspace: the quiz
\* ------------------------------------------------------------------------

\* quizzes asked of the AI service in one behaviour
MaxQuizzes == 2

\* the options of a question, by index
OptionIds == {0, 1}

\* the questions the a-th call to the AI service resolves with
GeneratedQuiz(a) ==
  << [quiz |-> a, correctAnswerIndex |-> 0], [quiz |-> a, correctAnswerIndex |-> 1] >>

QuizCalls == { a \in 1..Len(aiCalls) : aiCalls[a].kind \in {"quiz", "quizFromChat"} }

\* part_000 lines 1061, 1670: the panel with the current question is shown
QuestionShown ==
  /\ Mounted
  /\ ws.activeTab = "quiz"
  /\ ~ws.showQuizSetup
  /\ ~ws.isQuizLoading
  /\ Len(ws.quizQuestions) > 0
  /\ ~ws.quizFinished

\* what the quiz actions leave as it is
QuizFrame ==
  UNCHANGED << table, objects, calls, started, gone, documents, activeDoc, batches,
               shellVars, user, downloaded >>

\* part_000 lines 576-584 and 1017, 1045: handleStartQuiz up to its await,
\* from the setup panel
HandleStartQuiz ==
  /\ Quiet
  /\ Mounted
  /\ ws.activeTab = "quiz"
  /\ ws.showQuizSetup /\ ~ws.isQuizLoading
  /\ Cardinality(QuizCalls) < MaxQuizzes
  /\ ws' = [ws EXCEPT !.isQuizLoading = TRUE,
                      !.quizQuestions = << >>,
                      !.quizFinished = FALSE,
                      !.quizScore = 0,
                      !.currentQuestionIndex = 0,
                      !.showQuizSetup = FALSE]
  /\ aiCalls' = Append(aiCalls, AiCall("quiz", activeDoc[1], << >>, 0))
  /\ UNCHANGED stats
  /\ QuizFrame

\* part_000 lines 585-592: handleStartQuiz after its await
QuizSettles(a, ok) ==
  /\ Quiet
  /\ a \in 1..Len(aiCalls)
  /\ aiCalls[a].kind = "quiz"
  /\ aiCalls[a].state = "pending"
  /\ aiCalls' = [aiCalls EXCEPT ![a].state = IF ok THEN "done" ELSE "failed"]
  /\ SetWorkspace(IF ok
                  THEN [ws EXCEPT !.quizQuestions = GeneratedQuiz(a),
                                  !.isQuizLoading = FALSE]
                  ELSE [ws EXCEPT !.showQuizSetup = TRUE,
                                  !.isQuizLoading = FALSE])
  /\ UNCHANGED stats
  /\ QuizFrame

\* part_000 lines 412-418 and 825-827: handleGenerateQuizFromChat up to its
\* await, from the chat panel
HandleGenerateQuizFromChat ==
  /\ Quiet
  /\ Mounted
  /\ ws.activeTab = "chat"
  /\ ws.messages # << >>
  /\ Cardinality(QuizCalls) < MaxQuizzes
  /\ ws' = [ws EXCEPT !.isChatLoading = TRUE]
  /\ aiCalls' = Append(aiCalls, AiCall("quizFromChat", activeDoc[1], ws.messages, 0))
  /\ UNCHANGED stats
  /\ QuizFrame

\* part_000 lines 419-431: handleGenerateQuizFromChat after its await
QuizFromChatSettles(a, ok) ==
  /\ Quiet
  /\ a \in 1..Len(aiCalls)
  /\ aiCalls[a].kind = "quizFromChat"
  /\ aiCalls[a].state = "pending"
  /\ aiCalls' = [aiCalls EXCEPT ![a].state = IF ok THEN "done" ELSE "failed"]
  /\ SetWorkspace(IF ok
                  THEN [ws EXCEPT !.quizQuestions = GeneratedQuiz(a),
                                  !.showQuizSetup = FALSE,
                                  !.quizFinished = FALSE,
                                  !.currentQuestionIndex = 0,
                                  !.quizScore = 0,
                                  !.activeTab = "quiz",
                                  !.isChatLoading = FALSE]
                  ELSE [ws EXCEPT !.isChatLoading = FALSE])
  /\ UNCHANGED stats
  /\ QuizFrame

\* part_000 lines 1088-1093: an option of the current question is clicked
SelectAnswer(idx) ==
  /\ Quiet
  /\ QuestionShown
  /\ ws.selectedAnswer = << >>
  /\ ws' = [ws EXCEPT
              !.selectedAnswer = << idx >>,
              !.quizScore =
                 IF idx = ws.quizQuestions[ws.currentQuestionIndex + 1].correctAnswerIndex
                 THEN @ + 1 ELSE @]
  /\ UNCHANGED << aiCalls, stats >>
  /\ QuizFrame

\* part_000 lines 1109-1120: the button under an answered question
NextQuestion ==
  /\ Quiet
  /\ QuestionShown
  /\ ws.selectedAnswer # << >>
  /\ IF ws.currentQuestionIndex < Len(ws.quizQuestions) - 1
     THEN /\ ws' = [ws EXCEPT !.currentQuestionIndex = @ + 1, !.selectedAnswer = << >>]
          /\ UNCHANGED stats
     ELSE /\ ws' = [ws EXCEPT !.quizFinished = TRUE]
          /\ stats' = StatsAfter("quiz", 1)
  /\ UNCHANGED aiCalls
  /\ QuizFrame

\* part_000 lines 1064 and 1137-1139: "Quitter le Quiz" over a question and
\* "Nouveau Quiz" under the score
ShowQuizSetup ==
  /\ Quiet
  /\ Mounted
  /\ ws.activeTab = "quiz"
  /\ QuestionShown \/ ws.quizFinished
  /\ ~ws.showQuizSetup
  /\ ws' = [ws EXCEPT !.showQuizSetup = TRUE]
  /\ UNCHANGED << aiCalls, stats >>
  /\ QuizFrame

\* part_000 lines 1620-1622: the tab buttons of the chat and the quiz
SetQuizTab(tab) ==
  /\ Mounted
  /\ SetActiveTab(tab)

\* one session with quizzes from the setup panel and from the chat
NextQuiz ==
  \/ \E c \in CallIds : AskOnce(c)
  \/ \E c \in CallIds : SaveSelect(c, FALSE)
  \/ \E c \in CallIds : SaveUpsert(c, FALSE)
  \/ \E c \in CallIds : Settle(c)
  \/ \E tab \in {"chat", "quiz"} : SetQuizTab(tab)
  \/ HandleStartQuiz
  \/ \E a \in 1..(MaxQuizzes + 1), ok \in BOOLEAN : QuizSettles(a, ok)
  \/ HandleGenerateQuizFromChat
  \/ \E a \in 1..(MaxQuizzes + 1), ok \in BOOLEAN : QuizFromChatSettles(a, ok)
  \/ \E idx \in OptionIds : SelectAnswer(idx)
  \/ NextQuestion
  \/ ShowQuizSetup

SpecQuiz == InitWorkspace /\ [][NextQuiz]_vars

\* a newly generated quiz is put on the screen in this step
NewQuizShown ==
  /\ ws # << >>
  /\ ws' # << >>
  /\ ws'.quizQuestions # ws.quizQuestions
  /\ QuestionShown'

\* C30: when the first question of a newly generated quiz is displayed,
\* selectedAnswer is null, quizScore is 0 and quizFinished is false.
C30_NewQuizStartsClean ==
  [][ NewQuizShown =>
        /\ ws'.currentQuestionIndex = 0
        /\ ws'.selectedAnswer = << >>
        /\ ws'.quizScore = 0
        /\ ~ws'.quizFinished ]_vars

====
